---------------------------- MODULE Spec2Model ----------------------------
(***************************************************************************)
(* A model of the Kruskal-Wallis H test calculator (src/main.py).          *)
(*                                                                         *)
(* The program is a Streamlit script: every interaction reruns main() from *)
(* the top with the widgets' current values.  The state is the widget      *)
(* state (num_groups, the name_i and group_i keys), the locals main        *)
(* rebuilds on every run (group_data, group_names) and what the run        *)
(* showed (outcome).                                                       *)
(*                                                                         *)
(* Conventions                                                             *)
(*  - a Python float is a pair: <<"fin", v>> (v counts tenths, so 8.5 is   *)
(*    <<"fin", 85>>), <<"nan", 0>> or <<"inf", 1>> (an infinity, by sign);   *)
(*  - a rank is kept doubled (mid-ranks are multiples of 1/2), as          *)
(*    <<"num", 2*rank>>, or <<"nan", 0>> for the rank of a NaN;            *)
(*  - H and the mean ranks are exact rationals <<"num", p, q>> in lowest   *)
(*    terms, or <<"nan", 0, 1>>; double rounding is not modelled;          *)
(*  - the p-value is the term <<"chi2.sf", H, df>>: the chi-square         *)
(*    survival function is not evaluated, and neither is p < alpha.        *)
(*  - a text area's content is the sequence of its comma/newline separated *)
(*    fields; the field " " stands for an empty or all-blank field, and    *)
(*    the empty sequence for the empty string.                             *)
(***************************************************************************)
EXTENDS Integers, Sequences, FiniteSets

VARIABLES num_groups, name, text, group_data, group_names, outcome

vars == <<num_groups, name, text, group_data, group_names, outcome>>

---------------------------------------------------------------------------
(* Bounds of the model.                                                    *)

\* the user types at most MaxFields fields in all
MaxFields == 3
\* the number_input offers MinGroups .. MinGroups + MaxExtraGroups
MaxExtraGroups == 1
\* inputs drawn for calculate_kruskal_wallis: at most MaxK groups,
\* MaxN observations in all, values 1 .. MaxVal
MaxK == 3
MaxN == 4
MaxVal == 3

\* st.number_input(min_value=3, value=3)
MinGroups == 3

---------------------------------------------------------------------------
(* Python floats.                                                          *)

Fin(v) == <<"fin", v>>
NaN == <<"nan", 0>>
PosInf == <<"inf", 1>>

IsNaN(x) == x[1] = "nan"
IsFinite(x) == x[1] = "fin"

\* x < y on floats; every comparison with NaN is false
FloatLess(x, y) ==
    IF IsNaN(x) \/ IsNaN(y) THEN FALSE
    ELSE IF x[1] = "fin" /\ y[1] = "fin" THEN x[2] < y[2]
    ELSE IF x[1] = "inf" /\ y[1] = "inf" THEN x[2] < y[2]
    ELSE IF x[1] = "inf" THEN x[2] < 0
    ELSE y[2] > 0

\* x == y on floats; NaN equals nothing
FloatEq(x, y) == ~IsNaN(x) /\ ~IsNaN(y) /\ x = y

---------------------------------------------------------------------------
(* Exact rationals.                                                        *)

Abs(n) == IF n < 0 THEN -n ELSE n

RECURSIVE GCD(_, _)
GCD(a, b) == IF b = 0 THEN a ELSE GCD(b, a % b)

\* p/q in lowest terms with a positive denominator (q # 0)
Rat(p, q) ==
    LET g == GCD(Abs(p), Abs(q))
        s == IF q < 0 THEN -1 ELSE 1
    IN  <<"num", (s * p) \div g, (s * q) \div g>>

RatNaN == <<"nan", 0, 1>>
RatAdd(a, b) == Rat(a[2] * b[3] + b[2] * a[3], a[3] * b[3])
RatSub(a, b) == Rat(a[2] * b[3] - b[2] * a[3], a[3] * b[3])
RatMul(a, b) == Rat(a[2] * b[2], a[3] * b[3])
RatDiv(a, b) == Rat(a[2] * b[3], a[3] * b[2])

---------------------------------------------------------------------------
(* Sequence helpers.                                                       *)

RECURSIVE SumSeq(_)
SumSeq(s) == IF s = << >> THEN 0 ELSE Head(s) + SumSeq(Tail(s))

RECURSIVE Concat(_)
Concat(ss) == IF ss = << >> THEN << >> ELSE Head(ss) \o Concat(Tail(ss))

Range(s) == {s[i] : i \in DOMAIN s}

---------------------------------------------------------------------------
(* Ranking: scipy.stats.rankdata and pandas Series.rank, both with the     *)
(* default method 'average'.                                               *)

\* s, sorted ascending, with x inserted after the elements not above it
RECURSIVE InsertSorted(_, _)
InsertSorted(x, s) ==
    IF s = << >> THEN <<x>>
    ELSE IF FloatLess(x, Head(s)) THEN <<x>> \o s
    ELSE <<Head(s)>> \o InsertSorted(x, Tail(s))

\* a stable ascending sort of a sequence of floats holding no NaN
RECURSIVE SortFloats(_)
SortFloats(s) ==
    IF s = << >> THEN << >>
    ELSE InsertSorted(s[Len(s)], SortFloats(SubSeq(s, 1, Len(s) - 1)))

\* the 1-based positions sorted holds x at
PositionsOf(x, sorted) == {i \in DOMAIN sorted : FloatEq(sorted[i], x)}

Min(S) == CHOOSE x \in S : \A y \in S : x <= y
Max(S) == CHOOSE x \in S : \A y \in S : x >= y

\* twice the mean of the positions of the run of x in sorted: the mean of
\* consecutive integers is (first + last) / 2
MidRank2(x, sorted) ==
    LET run == PositionsOf(x, sorted) IN Min(run) + Max(run)

\* scipy.stats.rankdata(a), doubled; a holds no NaN
rankdata(a) ==
    LET sorted == SortFloats(a) IN [i \in DOMAIN a |-> MidRank2(a[i], sorted)]

\* a with its NaN entries dropped
RECURSIVE DropNaN(_)
DropNaN(a) ==
    IF a = << >> THEN << >>
    ELSE IF IsNaN(Head(a)) THEN DropNaN(Tail(a))
    ELSE <<Head(a)>> \o DropNaN(Tail(a))

\* Series.rank(): method='average', na_option='keep' (a NaN is ranked NaN
\* and takes no position)
SeriesRank(a) ==
    LET sorted == SortFloats(DropNaN(a))
    IN  [i \in DOMAIN a |->
            IF IsNaN(a[i]) THEN <<"nan", 0>>
            ELSE <<"num", MidRank2(a[i], sorted)>>]

---------------------------------------------------------------------------
(* scipy.stats.kruskal.                                                    *)

\* scipy.stats.tiecorrect(ranked): 1 - sum(t^3 - t) / (N^3 - N) over the
\* runs of equal ranks, 1 when there are fewer than 2 ranks
tiecorrect(ranked) ==
    LET N == Len(ranked)
        cnt(r) == Cardinality({i \in DOMAIN ranked : ranked[i] = r})
        distinct == Range(ranked)
        RECURSIVE TieSum(_)
        TieSum(S) ==
            IF S = {} THEN 0
            ELSE LET r == CHOOSE x \in S : TRUE
                     t == cnt(r)
                 IN  (t * t * t - t) + TieSum(S \ {r})
    IN  IF N < 2 THEN Rat(1, 1)
        ELSE RatSub(Rat(1, 1), Rat(TieSum(distinct), N * N * N - N))

\* the sum over the samples of (sum of the sample's ranks)^2 / n_i
RECURSIVE SquareOfSumsOverN(_, _, _)
SquareOfSumsOverN(samples, ranked2, offset) ==
    IF samples = << >> THEN Rat(0, 1)
    ELSE LET n == Len(Head(samples))
             s2 == SumSeq(SubSeq(ranked2, offset + 1, offset + n))
         IN  RatAdd(Rat(s2 * s2, 4 * n),
                    SquareOfSumsOverN(Tail(samples), ranked2, offset + n))

\* kruskal(*samples): <<"raise", message>> or <<"return", H>>
kruskal(samples) ==
    LET alldata == Concat(samples)
        ranked == rankdata(alldata)
        ties == tiecorrect(ranked)
        totaln == Len(alldata)
        ssbn == SquareOfSumsOverN(samples, ranked, 0)
        h == RatSub(RatMul(Rat(12, totaln * (totaln + 1)), ssbn),
                    Rat(3 * (totaln + 1), 1))
    IN  IF Len(samples) < 2
        THEN <<"raise", "Need at least two groups in stats.kruskal()">>
        ELSE IF \E i \in DOMAIN samples : Len(samples[i]) = 0
        THEN <<"return", RatNaN>>
        ELSE IF \E i \in DOMAIN alldata : IsNaN(alldata[i])
        THEN <<"return", RatNaN>>
        ELSE IF ties[2] = 0
        THEN <<"raise", "All numbers are identical in kruskal">>
        ELSE <<"return", RatDiv(h, ties)>>

---------------------------------------------------------------------------
(* calculate_kruskal_wallis.                                               *)

\* Python's order on the labels the model uses (str.__lt__, by code point):
\* groupby sorts its keys with it
LabelOrder ==
    <<"A", "Control Group", "Group 1", "Group 2", "Group 3", "Group 4",
      "Group 5", "Treatment A", "Treatment B">>

LabelRank(l) == CHOOSE i \in DOMAIN LabelOrder : LabelOrder[i] = l

\* the indices i, ascending from i0, with len(group_data[i]) > 0
RECURSIVE ValidIndices(_, _)
ValidIndices(gd, i0) ==
    IF i0 > Len(gd) THEN << >>
    ELSE IF Len(gd[i0]) > 0 THEN <<i0>> \o ValidIndices(gd, i0 + 1)
    ELSE ValidIndices(gd, i0 + 1)

\* a faulty ValidGroups: the empty groups are not filtered out
AllGroups(gd) == gd

\* valid_groups = [g for g in group_data if len(g) > 0]
ValidGroups(gd) ==
    LET idx == ValidIndices(gd, 1) IN [j \in DOMAIN idx |-> gd[idx[j]]]

\* valid_names = [group_names[i] for i, g in enumerate(group_data) if len(g) > 0]
ValidNames(gd, gn) ==
    LET idx == ValidIndices(gd, 1) IN [j \in DOMAIN idx |-> gn[idx[j]]]

\* group_indices: [i] * len(group) for each valid group in turn
RECURSIVE GroupIndices(_, _)
GroupIndices(valid_groups, i) ==
    IF i > Len(valid_groups) THEN << >>
    ELSE [j \in 1..Len(valid_groups[i]) |-> i]
            \o GroupIndices(valid_groups, i + 1)

\* a faulty PoolData: the loop starts at the second group
PoolDataSkipFirst(valid_groups) == Concat(Tail(valid_groups))

\* all_data: every valid group's values, group after group
PoolData(valid_groups) == Concat(valid_groups)

\* a faulty RanksFrame: the values are ranked inside their own group
RanksFrameWithinGroup(valid_groups, valid_names) ==
    LET all_data == PoolData(valid_groups)
        group_indices == GroupIndices(valid_groups, 1)
        rank == Concat([i \in DOMAIN valid_groups |->
                            SeriesRank(valid_groups[i])])
    IN  [r \in DOMAIN all_data |->
            [Value |-> all_data[r],
             Group |-> valid_names[group_indices[r]],
             Rank |-> rank[r]]]

\* the ranks DataFrame: one row per pooled observation
RanksFrame(valid_groups, valid_names) ==
    LET all_data == PoolData(valid_groups)
        group_indices == GroupIndices(valid_groups, 1)
        rank == SeriesRank(all_data)
    IN  [r \in DOMAIN all_data |->
            [Value |-> all_data[r],
             Group |-> valid_names[group_indices[r]],
             Rank |-> rank[r]]]

\* the keys of groupby('Group'): the labels present, sorted
RECURSIVE SortedLabels(_)
SortedLabels(S) ==
    IF S = {} THEN << >>
    ELSE LET l == CHOOSE x \in S : \A y \in S : LabelRank(x) <= LabelRank(y)
         IN  <<l>> \o SortedLabels(S \ {l})

\* the mean of the ranks (NaN skipped) of the rows labelled l
MeanRankOf(frame, l) ==
    LET rows == {r \in DOMAIN frame :
                    frame[r].Group = l /\ frame[r].Rank[1] = "num"}
        RECURSIVE Sum2(_)
        Sum2(R) ==
            IF R = {} THEN 0
            ELSE LET r == CHOOSE x \in R : TRUE
                 IN  frame[r].Rank[2] + Sum2(R \ {r})
    IN  IF rows = {} THEN RatNaN
        ELSE Rat(Sum2(rows), 2 * Cardinality(rows))

\* ranks.groupby('Group')['Rank'].mean().reset_index()
GroupByMean(frame) ==
    LET keys == SortedLabels({frame[r].Group : r \in DOMAIN frame})
    IN  [j \in DOMAIN keys |->
            [Group |-> keys[j], Rank |-> MeanRankOf(frame, keys[j])]]

\* what a script run shows when it computes nothing
Shown(kind) ==
    [kind |-> kind, h_stat |-> RatNaN, p_val |-> <<"chi2.sf", RatNaN, 0>>,
     df |-> 0, mean_ranks |-> << >>, all_data |-> << >>]

Idle == Shown("idle")

\* a faulty DegreesOfFreedom: the number of groups, not one less
DegreesOfFreedomOffByOne(valid_groups) == Len(valid_groups)

\* df = len(valid_groups) - 1
DegreesOfFreedom(valid_groups) == Len(valid_groups) - 1

\* the dict calculate_kruskal_wallis returns once kruskal has returned h
ResultsDict(gd, gn, h) ==
    LET valid_groups == ValidGroups(gd)
        valid_names == ValidNames(gd, gn)
        df == DegreesOfFreedom(valid_groups)
        ranks == RanksFrame(valid_groups, valid_names)
    IN  [kind |-> "results",
         h_stat |-> h,
         p_val |-> <<"chi2.sf", h, df>>,
         df |-> df,
         mean_ranks |-> GroupByMean(ranks),
         all_data |-> ranks]

\* a faulty calculate_kruskal_wallis: the ValueError is caught and H = 0
\* reported
CalculateCatchingError(gd, gn) ==
    LET k == kruskal(ValidGroups(gd))
    IN  IF k[1] = "raise" THEN ResultsDict(gd, gn, Rat(0, 1))
        ELSE ResultsDict(gd, gn, k[2])

\* calculate_kruskal_wallis: its dict, or the ValueError kruskal raises
\* through it (nothing catches it, in it or in main)
calculate_kruskal_wallis(gd, gn) ==
    LET k == kruskal(ValidGroups(gd))
    IN  IF k[1] = "raise" THEN Shown("ValueError")
        ELSE ResultsDict(gd, gn, k[2])

---------------------------------------------------------------------------
(* main: the input loop.                                                   *)

\* the fields a user types
TypedFields == {"1", "2", "nan", "inf", "abc", " "}

\* x.strip() is non-empty
NonBlank(f) == f # " "

\* float(x.strip()) succeeds
CanFloat(f) == f \in {"1", "2", "nan", "inf", "8.5", "9.2", "9.6", "8.8", "9.1", "9.3",
                      "7.5", "7.8", "8.2", "7.1", "7.3", "7.6",
                      "6.5", "6.8", "6.2", "6.9", "6.4", "6.3"}

\* the digits of a decimal field, as tenths
Tenths(f) ==
    CASE f = "1" -> 10 [] f = "2" -> 20
      [] f = "8.5" -> 85 [] f = "9.2" -> 92 [] f = "9.6" -> 96
      [] f = "8.8" -> 88 [] f = "9.1" -> 91 [] f = "9.3" -> 93
      [] f = "7.5" -> 75 [] f = "7.8" -> 78 [] f = "8.2" -> 82
      [] f = "7.1" -> 71 [] f = "7.3" -> 73 [] f = "7.6" -> 76
      [] f = "6.5" -> 65 [] f = "6.8" -> 68 [] f = "6.2" -> 62
      [] f = "6.9" -> 69 [] f = "6.4" -> 64 [] f = "6.3" -> 63

\* float(x.strip()) where it succeeds
FloatOf(f) ==
    IF f = "nan" THEN NaN ELSE IF f = "inf" THEN PosInf ELSE Fin(Tenths(f))

\* [x for x in fields if x.strip()]
RECURSIVE NonBlankFields(_)
NonBlankFields(t) ==
    IF t = << >> THEN << >>
    ELSE IF NonBlank(Head(t)) THEN <<Head(t)>> \o NonBlankFields(Tail(t))
    ELSE NonBlankFields(Tail(t))

\* what one tab's pass through the loop body appends to group_data
TabAppends(t) ==
    LET fields == NonBlankFields(t)
        group == [j \in DOMAIN fields |-> FloatOf(fields[j])]
    IN  IF t = << >> THEN << << >> >>
        ELSE IF \E j \in DOMAIN fields : ~CanFloat(fields[j])
        THEN << << >> >>
        ELSE IF group = << >> THEN << << >>, << >> >>
        ELSE <<group>>

\* group_data after the loop over the first n tabs
RECURSIVE InputLoop(_, _)
InputLoop(texts, n) ==
    IF n = 0 THEN << >>
    ELSE InputLoop(texts, n - 1) \o TabAppends(texts[n])

\* group_names after the loop: one st.text_input value per tab
NamesLoop(names, n) == [i \in 1..n |-> names[i]]

---------------------------------------------------------------------------
(* main: the Run Analysis handler.                                         *)

\* len([g for g in group_data if len(g) > 0])
NonEmptyCount(gd) == Len(ValidIndices(gd, 1))

\* all(len(g) > 0 for g in group_data)
AllNonEmpty(gd) == \A i \in DOMAIN gd : Len(gd[i]) > 0

\* a faulty RunHandler: the check that every group is non-empty is missing
RunHandlerNoEmptyCheck(gd, gn) ==
    IF NonEmptyCount(gd) < 2 THEN Shown("error_min2")
    ELSE calculate_kruskal_wallis(gd, gn)

\* what the handler shows for the group_data and group_names of this run
RunHandler(gd, gn) ==
    IF NonEmptyCount(gd) < 2 THEN Shown("error_min2")
    ELSE IF ~AllNonEmpty(gd) THEN Shown("error_all")
    ELSE calculate_kruskal_wallis(gd, gn)

---------------------------------------------------------------------------
(* The session.  The name inputs keep their defaults unless Load Example   *)
(* Data sets them; alpha and show_details reach no modelled value.         *)

MaxTabs == MinGroups + MaxExtraGroups
Tabs == 1..MaxTabs

\* value=f"Group {i+1}"
DefaultName(i) ==
    CASE i = 1 -> "Group 1" [] i = 2 -> "Group 2" [] i = 3 -> "Group 3"
      [] i = 4 -> "Group 4" [] i = 5 -> "Group 5"

\* return_example_data: example_names and the fields of
\* ", ".join(map(str, data)) for each row of example_data
ExampleNames == <<"Treatment A", "Treatment B", "Control Group">>
ExampleTexts ==
    << <<"8.5", "9.2", "9.6", "8.8", "9.1", "9.3">>,
       <<"7.5", "7.8", "8.2", "7.1", "7.3", "7.6">>,
       <<"6.5", "6.8", "6.2", "6.9", "6.4", "6.3">> >>

\* the fields the text areas hold in all
RECURSIVE TotalFields(_, _)
TotalFields(texts, n) ==
    IF n = 0 THEN 0 ELSE Len(texts[n]) + TotalFields(texts, n - 1)

\* one run of the script from the widget state; clicked: the run was
\* started by the Run Analysis button
ScriptRun(n, names, texts, clicked) ==
    /\ num_groups' = n
    /\ name' = names
    /\ text' = texts
    /\ group_data' = InputLoop(texts, n)
    /\ group_names' = NamesLoop(names, n)
    /\ outcome' = IF clicked
                  THEN RunHandler(InputLoop(texts, n), NamesLoop(names, n))
                  ELSE Idle

Init ==
    /\ num_groups = MinGroups
    /\ name = [i \in Tabs |-> DefaultName(i)]
    /\ text = [i \in Tabs |-> << >>]
    /\ group_data = [i \in 1..MinGroups |-> << >>]
    /\ group_names = [i \in 1..MinGroups |-> DefaultName(i)]
    /\ outcome = Idle

\* the number_input changes; a widget that is not rendered loses its state
SetNumGroups(n) ==
    /\ n # num_groups
    /\ ScriptRun(n,
                 [i \in Tabs |-> IF i <= n THEN name[i] ELSE DefaultName(i)],
                 [i \in Tabs |-> IF i <= n THEN text[i] ELSE << >>],
                 FALSE)

\* the user types one more field into tab i's text area
TypeField(i, f) ==
    /\ i <= num_groups
    /\ TotalFields(text, MaxTabs) < MaxFields
    /\ ScriptRun(num_groups, name, [text EXCEPT ![i] = Append(@, f)], FALSE)

\* the user empties tab i's text area
ClearGroup(i) ==
    /\ i <= num_groups
    /\ text[i] # << >>
    /\ ScriptRun(num_groups, name, [text EXCEPT ![i] = << >>], FALSE)

\* the Load Example Data button: return_example_data, then the rest of main
LoadExampleData ==
    ScriptRun(num_groups,
              [i \in Tabs |-> IF i <= Len(ExampleNames) THEN ExampleNames[i] ELSE name[i]],
              [i \in Tabs |-> IF i <= Len(ExampleTexts) THEN ExampleTexts[i] ELSE text[i]],
              FALSE)

\* the Run Analysis button
RunAnalysis == ScriptRun(num_groups, name, text, TRUE)

Next ==
    \/ \E n \in MinGroups..MaxTabs : SetNumGroups(n)
    \/ \E i \in Tabs, f \in TypedFields : TypeField(i, f)
    \/ \E i \in Tabs : ClearGroup(i)
    \/ LoadExampleData
    \/ RunAnalysis

Spec == Init /\ [][Next]_vars

---------------------------------------------------------------------------
(* calculate_kruskal_wallis on its own, over drawn inputs.                 *)

Vals == {Fin(10 * v) : v \in 1..MaxVal}

\* s cut into consecutive groups of the given sizes
RECURSIVE Split(_, _)
Split(s, sizes) ==
    IF sizes = << >> THEN << >>
    ELSE <<SubSeq(s, 1, Head(sizes))>>
            \o Split(SubSeq(s, Head(sizes) + 1, Len(s)), Tail(sizes))

\* the sizes of up to MaxK groups (empty ones too) of MaxN values in all
DrawnSizes ==
    UNION {{z \in [1..k -> 0..MaxN] : SumSeq(z) <= MaxN} : k \in 1..MaxK}

FinSeq(s) == [i \in DOMAIN s |-> Fin(10 * s[i])]

\* example_data of return_example_data, and three inputs with ties
ExampleData == [i \in 1..3 |-> [j \in 1..6 |-> FloatOf(ExampleTexts[i][j])]]
TiedInputs ==
    { <<FinSeq(<<1, 2, 2, 3>>), FinSeq(<<2, 4, 5>>), FinSeq(<<6, 7, 8>>)>>,
      <<FinSeq(<<5, 5, 5>>), FinSeq(<<5, 5>>), FinSeq(<<5, 5, 5, 5>>)>>,
      <<FinSeq(<<5, 7, 7, 9>>), FinSeq(<<7, 7>>)>> }

\* the labels passed with k groups: the defaults, the defaults with the
\* first two exchanged, the defaults with the second equal to the first
NameChoices(k) ==
    LET default == [i \in 1..k |-> DefaultName(i)]
    IN  IF k < 2 THEN {default}
        ELSE {default,
              [default EXCEPT ![1] = default[2], ![2] = default[1]],
              [default EXCEPT ![2] = default[1]]}

InitCalc ==
    \* the widget state plays no part in the call
    /\ num_groups = MinGroups
    /\ name = [i \in Tabs |-> DefaultName(i)]
    /\ text = [i \in Tabs |-> << >>]
    /\ \/ \E sizes \in DrawnSizes :
             \E flat \in [1..SumSeq(sizes) -> Vals] :
                group_data = Split(flat, sizes)
       \/ group_data \in TiedInputs \cup {ExampleData}
    /\ group_names \in NameChoices(Len(group_data))
    /\ outcome = Idle

\* one call of calculate_kruskal_wallis(group_data, group_names, ...)
Calculate ==
    /\ outcome = Idle
    /\ outcome' = calculate_kruskal_wallis(group_data, group_names)
    /\ UNCHANGED <<num_groups, name, text, group_data, group_names>>

NextCalc == Calculate

SpecCalc == InitCalc /\ [][NextCalc]_vars

---------------------------------------------------------------------------
(* The claims.  Their helpers are written from the claims' words, not with *)
(* the operators above.                                                    *)

\* a run of the handler, or a call of calculate_kruskal_wallis, has ended
Ran == outcome.kind # "idle"
Rejected == outcome.kind \in {"error_min2", "error_all"}

\* the groups admitted to the test: those of size >= 1, in input order
Admitted(gd) == SelectSeq(gd, LAMBDA g : Len(g) >= 1)
NonEmptyGroups(gd) == {i \in DOMAIN gd : Len(gd[i]) >= 1}

\* the observations of all groups
Observations(gd) == UNION {Range(gd[i]) : i \in DOMAIN gd}

\* N: the number of admitted observations
RECURSIVE TotalObs(_)
TotalObs(gd) == IF gd = << >> THEN 0 ELSE Len(Head(gd)) + TotalObs(Tail(gd))

\* the rows of the rank table that hold admitted group i
RowsOf(gd, i) ==
    LET adm == Admitted(gd)
        before == TotalObs(SubSeq(adm, 1, i - 1))
    IN  (before + 1)..(before + Len(adm[i]))

\* twice the sum of the ranks of a set of rows
RECURSIVE RankSum2(_, _)
RankSum2(frame, rows) ==
    IF rows = {} THEN 0
    ELSE LET r == CHOOSE x \in rows : TRUE
         IN  frame[r].Rank[2] + RankSum2(frame, rows \ {r})

NoNaNRank(frame) == \A r \in DOMAIN frame : frame[r].Rank[1] = "num"

\* C1: a run with fewer than 2 non-empty groups, or with an empty group, is
\* rejected with an input error: calculate_kruskal_wallis is not reached and
\* nothing is ranked or computed.
C1_InvalidGroupsRejected ==
    (Ran /\ (Cardinality(NonEmptyGroups(group_data)) < 2
             \/ \E i \in DOMAIN group_data : Len(group_data[i]) = 0))
        => /\ Rejected
           /\ outcome.all_data = << >>
           /\ outcome.mean_ranks = << >>
           /\ outcome.h_stat = RatNaN

\* a run rejected for an empty group although 2 groups hold data
C1_Witness ==
    /\ outcome.kind = "error_all"
    /\ Cardinality(NonEmptyGroups(group_data)) >= 2

AllIdentical(gd) == Cardinality(Observations(gd)) = 1

\* C2: with 2 or more non-empty groups whose observations all have the same
\* value, the test fails with an error and returns no H, p-value or
\* significance flag.
C2_AllIdenticalFails ==
    (Ran /\ Cardinality(NonEmptyGroups(group_data)) >= 2
         /\ AllIdentical(group_data))
        => /\ outcome.kind = "ValueError"
           /\ outcome.h_stat = RatNaN
           /\ outcome.mean_ranks = << >>

\* the call has failed on three groups of one repeated value
C2_Witness ==
    /\ outcome.kind = "ValueError"
    /\ Cardinality(NonEmptyGroups(group_data)) >= 3
    /\ AllIdentical(group_data)

\* C3: a run with a non-finite observation is rejected before pooling; no
\* non-finite value reaches the ranking or H.
C3_NonFiniteRejected ==
    /\ (Ran /\ \E x \in Observations(group_data) : ~IsFinite(x)) => Rejected
    /\ \A r \in DOMAIN outcome.all_data : IsFinite(outcome.all_data[r].Value)

\* C4: the ranks of the N pooled observations sum to N(N+1)/2, and so do
\* the groups' rank sums R_i, whatever the ties.
C4_RankSum ==
    outcome.kind = "results" =>
        LET N == TotalObs(Admitted(group_data))
            frame == outcome.all_data
            k == Len(Admitted(group_data))
        IN  /\ Len(frame) = N
            /\ NoNaNRank(frame)
            /\ RankSum2(frame, DOMAIN frame) = N * (N + 1)
            /\ SumSeq([i \in 1..k |-> RankSum2(frame, RowsOf(group_data, i))])
                  = N * (N + 1)

\* ranks were assigned to an input holding a tie (a fractional rank)
C4_Witness ==
    /\ outcome.kind = "results"
    /\ \E r \in DOMAIN outcome.all_data : outcome.all_data[r].Rank[2] % 2 = 1
    /\ \E r \in DOMAIN outcome.all_data : outcome.all_data[r].Rank[2] % 2 = 0

\* C5: every pooled observation gets the mean of the sorted positions of
\* the run of observations equal to it: with l observations below it and e
\* equal to it (itself included) the positions are l+1 .. l+e, whose mean is
\* l + (e+1)/2.  Equal values get equal ranks, an untied value its position
\* l+1, a smaller value a strictly smaller rank.
C5_MidRanks ==
    outcome.kind = "results" =>
        LET frame == outcome.all_data
            pooled == Concat(Admitted(group_data))
            below(r) == Cardinality({q \in DOMAIN frame :
                            FloatLess(frame[q].Value, frame[r].Value)})
            equal(r) == Cardinality({q \in DOMAIN frame :
                            frame[q].Value = frame[r].Value})
        IN  /\ [r \in DOMAIN frame |-> frame[r].Value] = pooled
            /\ \A r \in DOMAIN frame :
                  /\ frame[r].Rank = <<"num", 2 * below(r) + equal(r) + 1>>
                  /\ equal(r) = 1 => frame[r].Rank[2] = 2 * (below(r) + 1)
            /\ \A r, q \in DOMAIN frame :
                  /\ frame[r].Value = frame[q].Value
                        => frame[r].Rank = frame[q].Rank
                  /\ FloatLess(frame[r].Value, frame[q].Value)
                        => frame[r].Rank[2] < frame[q].Rank[2]

\* a ranking with a value tied across two groups and an untied value
C5_Witness ==
    /\ outcome.kind = "results"
    /\ \E r, q \in DOMAIN outcome.all_data :
          /\ r # q
          /\ outcome.all_data[r].Value = outcome.all_data[q].Value
          /\ outcome.all_data[r].Group # outcome.all_data[q].Group
    /\ \E r \in DOMAIN outcome.all_data :
          \A q \in DOMAIN outcome.all_data :
             q # r => outcome.all_data[q].Value # outcome.all_data[r].Value

\* the mean rank R_i / n_i of admitted group i
MeanRankOfGroup(frame, gd, i) ==
    Rat(RankSum2(frame, RowsOf(gd, i)), 2 * Len(Admitted(gd)[i]))

\* the labels of the admitted groups, in input order
RECURSIVE AdmittedNames(_, _)
AdmittedNames(gd, gn) ==
    IF gd = << >> THEN << >>
    ELSE IF Len(Head(gd)) >= 1
    THEN <<Head(gn)>> \o AdmittedNames(Tail(gd), Tail(gn))
    ELSE AdmittedNames(Tail(gd), Tail(gn))

\* C6: the result holds one summary (mean rank R_i / n_i) per admitted
\* group, in the order the caller supplied the groups, whatever the labels.
C6_SummaryPerGroupInOrder ==
    (outcome.kind = "results" /\ NoNaNRank(outcome.all_data)) =>
        LET adm == Admitted(group_data)
            names == AdmittedNames(group_data, group_names)
        IN  /\ Len(outcome.mean_ranks) = Len(adm)
            /\ \A i \in 1..Len(adm) :
                  /\ outcome.mean_ranks[i].Group = names[i]
                  /\ outcome.mean_ranks[i].Rank =
                        MeanRankOfGroup(outcome.all_data, group_data, i)

\* C7: the reported df is k - 1, k the number of groups of size >= 1 (the
\* groups that were ranked and passed to the H computation), and df >= 1.
C7_DegreesOfFreedom ==
    outcome.kind = "results" =>
        LET k == Cardinality(NonEmptyGroups(group_data))
        IN  /\ outcome.df = k - 1
            /\ outcome.df >= 1
            /\ outcome.p_val[3] = outcome.df
            /\ Len(outcome.all_data) = TotalObs(Admitted(group_data))

\* a result for an input of which an empty group was dropped
C7_Witness ==
    /\ outcome.kind = "results"
    /\ \E i \in DOMAIN group_data : Len(group_data[i]) = 0
    /\ outcome.df = 1

Permutations(k) ==
    {pi \in [1..k -> 1..k] : \A i, j \in 1..k : pi[i] = pi[j] => i = j}

Permuted(seq, pi) == [i \in DOMAIN pi |-> seq[pi[i]]]

\* permuting the groups (with their labels) of a valid input leaves H, df
\* and p unchanged, and each group its size and mean rank
StatisticsUnchanged(pi) ==
    LET gd2 == Permuted(group_data, pi)
        out2 == calculate_kruskal_wallis(gd2, Permuted(group_names, pi))
    IN  /\ out2.kind = "results"
        /\ out2.h_stat = outcome.h_stat
        /\ out2.df = outcome.df
        /\ out2.p_val = outcome.p_val
        /\ \A j \in DOMAIN pi :
              /\ Len(gd2[j]) = Len(group_data[pi[j]])
              /\ MeanRankOfGroup(out2.all_data, gd2, j) =
                    MeanRankOfGroup(outcome.all_data, group_data, pi[j])

\* the group summaries of the permuted input are those of the input,
\* permuted the same way
SummariesFollow(pi) ==
    LET out2 == calculate_kruskal_wallis(Permuted(group_data, pi),
                                         Permuted(group_names, pi))
    IN  /\ Len(out2.mean_ranks) = Len(pi)
        /\ Len(outcome.mean_ranks) = Len(pi)
        /\ \A j \in DOMAIN pi :
              out2.mean_ranks[j] = outcome.mean_ranks[pi[j]]

ValidResult ==
    /\ outcome.kind = "results"
    /\ \A i \in DOMAIN group_data : Len(group_data[i]) >= 1

\* C8: for every permutation of the groups of a valid input the test
\* returns the same H, df and p, every group keeps its size, rank sum and
\* mean rank, and the group summaries are permuted the same way.
C8_PermutationInvariant ==
    ValidResult =>
        \A pi \in Permutations(Len(group_data)) :
            StatisticsUnchanged(pi) /\ SummariesFollow(pi)

\* the part of C8 that does not speak of the order of the summaries
C8_StatisticsUnchanged ==
    ValidResult =>
        \A pi \in Permutations(Len(group_data)) : StatisticsUnchanged(pi)

\* the sum of (t^3 - t) over the tie groups of the pooled values
RECURSIVE TieTerms(_, _)
TieTerms(pooled, values) ==
    IF values = {} THEN 0
    ELSE LET v == CHOOSE x \in values : TRUE
             t == Cardinality({i \in DOMAIN pooled : pooled[i] = v})
         IN  (t * t * t - t) + TieTerms(pooled, values \ {v})

\* the sum over the admitted groups i..k of R_i^2 / n_i
RECURSIVE SumR2OverN(_, _, _)
SumR2OverN(frame, gd, i) ==
    IF i > Len(Admitted(gd)) THEN Rat(0, 1)
    ELSE LET R2 == RankSum2(frame, RowsOf(gd, i))
         IN  RatAdd(Rat(R2 * R2, 4 * Len(Admitted(gd)[i])),
                    SumR2OverN(frame, gd, i + 1))

\* H_raw = (12 / (N(N+1))) * sum_i (R_i^2 / n_i) - 3(N+1)
HRaw(frame, gd) ==
    LET N == TotalObs(Admitted(gd))
    IN  RatSub(RatMul(Rat(12, N * (N + 1)), SumR2OverN(frame, gd, 1)),
               Rat(3 * (N + 1), 1))

\* C = 1 - (sum over tie groups of t^3 - t) / (N^3 - N)
TieCorrection(gd) ==
    LET pooled == Concat(Admitted(gd))
        N == Len(pooled)
    IN  RatSub(Rat(1, 1), Rat(TieTerms(pooled, Range(pooled)), N * N * N - N))

PairwiseDistinct(gd) ==
    Cardinality(Observations(gd)) = TotalObs(Admitted(gd))

TabValues(t) ==
    LET fields == SelectSeq(t, LAMBDA f : f # " ")
    IN  IF \A j \in DOMAIN fields : CanFloat(fields[j])
        THEN [j \in DOMAIN fields |-> FloatOf(fields[j])]
        ELSE << >>

\* C10: after the input loop group_data has num_groups entries, entry i
\* the parsed values of tab i (empty when tab i is blank or does not parse)
\* and aligned with group_names[i]; and when calculate_kruskal_wallis is
\* invoked every entry is non-empty and df = num_groups - 1 >= 2.
C10_GroupDataAligned ==
    /\ Len(group_data) = num_groups
    /\ Len(group_names) = num_groups
    /\ \A i \in 1..num_groups :
          group_data[i] = TabValues(text[i]) /\ group_names[i] = name[i]
    /\ outcome.kind \in {"results", "ValueError"} =>
          \A i \in DOMAIN group_data : Len(group_data[i]) >= 1
    /\ outcome.kind = "results" =>
          outcome.df = num_groups - 1 /\ outcome.df >= 2

\* the part of C10 about the runs that reach calculate_kruskal_wallis
C10_WhenCalculated ==
    outcome.kind \in {"results", "ValueError"} =>
        /\ Len(group_data) = num_groups
        /\ \A i \in 1..num_groups :
              /\ Len(group_data[i]) >= 1
              /\ group_data[i] = TabValues(text[i])
              /\ group_names[i] = name[i]
        /\ outcome.kind = "results" =>
              outcome.df = num_groups - 1 /\ outcome.df >= 2

=============================================================================
